---- MODULE Spec2Model ----
(***************************************************************************)
(* A model of DICOMDIR_creation_tool.py: check_output_directory, the scan *)
(* of the input tree (scan_input_directory), the nested loops of          *)
(* copy_sorted_files and the call of dcmmkdir (create_dicomdir), as main  *)
(* runs them.                                                             *)
(*                                                                         *)
(* Strings (identifiers, source paths, folder and file codes) are         *)
(* sequences of code points, so that Python's string order and the        *)
(* formatting of a code are computed, not assumed.                        *)
(***************************************************************************)
EXTENDS Integers, Sequences, FiniteSets

\* ------------------------------------------------------------------ bounds
\* Largest number of files in the input tree.
MaxFiles == 3

\* MAX_IMAGES_PER_FOLDER is 1000 in the source (line 36); the model runs the
\* same arithmetic with a capacity that a few files exceed.
MAX_IMAGES_PER_FOLDER == 2

\* Largest number of files in the input trees of SpecSeries (one study).
MaxSeriesFiles == 5

\* Largest number of files in the input trees of SpecRerun (two runs).
MaxRerunFiles == 2

\* Largest number of files in the input trees of SpecUnknown (records that
\* lack identifiers).
MaxUnknownFiles == 2

\* Largest number of elements of the datasets given to normalize_sh alone
\* and to the transcoder, and their deepest nesting of sequence items.
MaxElems == 2
MaxConvertElems == 1
MaxDepth == 2

\* Most applications of normalize_sh to one dataset in SpecNormalize.
MaxApplications == 2

\* UID_fixer: most files in the folder (one task of the thread pool each),
\* and most UI values in one file.
MaxUIDFiles == 2
MaxUIDs == 2
MaxDupFiles == 3

\* The length limit of an SH value, the literal of lines 83 and 84.
SHLimit == 16

\* ----------------------------------------------------------------- strings
Min(a, b) == IF a < b THEN a ELSE b

\* Python's str "<": the first differing code point decides, a proper prefix
\* is smaller.
StrLess(a, b) ==
    LET n == Min(Len(a), Len(b))
    IN  \/ \E i \in 1..n : a[i] < b[i] /\ \A j \in 1..(i - 1) : a[j] = b[j]
        \/ Len(a) < Len(b) /\ \A j \in 1..n : a[j] = b[j]

RECURSIVE Digits(_)
\* str(n) for n >= 0: the decimal digits as code points ('0' is 48).
Digits(n) == IF n < 10 THEN <<48 + n>> ELSE Digits(n \div 10) \o <<48 + (n % 10)>>

RECURSIVE ZeroPad(_, _)
\* The ":05d" of an f-string: zeros on the left up to the width, never cut.
ZeroPad(s, width) == IF Len(s) >= width THEN s ELSE ZeroPad(<<48>> \o s, width)

\* format_code(prefix, number): f"{prefix}{number:05d}"
format_code(prefix, number) == prefix \o ZeroPad(Digits(number), 5)

PA == <<80, 65>>
ST == <<83, 84>>
SE == <<83, 69>>
DI == <<68, 73>>
UNKNOWN == <<85, 78, 75, 78, 79, 87, 78>>

\* os.path.join(a, b) for the codes below the output root: a path is the
\* sequence of its components.
PathJoin(dir, name) == Append(dir, name)

RECURSIVE InsertSorted(_, _)
InsertSorted(s, x) ==
    IF s = <<>> THEN <<x>>
    ELSE IF StrLess(x, Head(s)) THEN <<x>> \o s
    ELSE <<Head(s)>> \o InsertSorted(Tail(s), x)

RECURSIVE sorted(_)
\* sorted(list) of strings (a stable sort: equal strings keep their order).
sorted(s) == IF s = <<>> THEN <<>> ELSE InsertSorted(sorted(SubSeq(s, 1, Len(s) - 1)), s[Len(s)])

RECURSIVE SetToSeq(_)
SetToSeq(S) == IF S = {} THEN <<>> ELSE LET x == CHOOSE y \in S : TRUE IN <<x>> \o SetToSeq(S \ {x})

Reverse(s) == [i \in 1..Len(s) |-> s[Len(s) + 1 - i]]

\* SortedKeys with the order turned round (sorted(..., reverse=True)).
SortedKeys_reversed(d) == Reverse(sorted(SetToSeq(DOMAIN d)))

\* sorted(d.keys())
SortedKeys(d) == sorted(SetToSeq(DOMAIN d))

\* ceil(a / b) of math.ceil on the true quotient (exact for these sizes).
Ceil(a, b) == IF a % b = 0 THEN a \div b ELSE (a \div b) + 1

\* list[start:end] with Python's clamping; start and end count from 0.
Slice(s, start, end) == SubSeq(s, start + 1, Min(end, Len(s)))

Range(f) == {f[x] : x \in DOMAIN f}

\* --------------------------------------------------------------- the input
\* File names in the input directory: "10", "9", "8", ... (their string
\* order is not their numeric order).
PathOf(i) == Digits(11 - i)

PathIndex(p) == CHOOSE i \in 1..10 : PathOf(i) = p

PatientIDs == {<<49, 48>>, <<57>>}
StudyUIDs == {<<49, 48>>, <<57>>}
SeriesUIDs == {<<49, 48>>, <<57>>}

\* The (patient, study, series) identifiers of a record: all "10", or one of
\* the three is "9". So a patient has one or two studies, a study one or two
\* series, and one series identifier occurs under two patients and studies.
Hierarchies ==
    {h \in PatientIDs \X StudyUIDs \X SeriesUIDs :
        Cardinality({k \in 1..3 : h[k] = <<57>>}) <= 1}

Record(h, sop) ==
    [readable |-> TRUE,
     ds |-> [PatientID |-> h[1], StudyInstanceUID |-> h[2],
             SeriesInstanceUID |-> h[3], SOPInstanceUID |-> sop]]

\* A file whose dataset has no SOPInstanceUID, and one dcmread cannot read.
NoSOP ==
    [readable |-> TRUE,
     ds |-> [PatientID |-> <<57>>, StudyInstanceUID |-> <<57>>, SeriesInstanceUID |-> <<57>>]]
Unreadable == [readable |-> FALSE, ds |-> [Modality |-> <<>>]]

\* What pydicom.dcmread(path, force=True) may give for file i: an exception
\* (readable FALSE) or a dataset, a record of the tags that are present. The
\* instance identifier of file i is str(i), or "1" as that of file 1.
FileContents(i) ==
    {Record(h, sop) : h \in Hierarchies, sop \in {Digits(1), Digits(i)}} \cup {NoSOP, Unreadable}

\* The input trees of up to max files.
TreesUpTo(max) ==
    UNION {{[p \in {PathOf(i) : i \in 1..n} |-> g[PathIndex(p)]] :
                g \in {f \in [1..n -> UNION {FileContents(i) : i \in 1..n}] :
                          \A i \in 1..n : f[i] \in FileContents(i)}} : n \in 0..max}

InputTrees == TreesUpTo(MaxFiles)

RerunTrees == TreesUpTo(MaxRerunFiles)

\* Input trees of one patient and one study: file i carries the instance
\* identifier str(i); the first k files are of one series and the others of
\* a second one.
SeriesTrees ==
    UNION {{[p \in {PathOf(i) : i \in 1..n} |->
                Record(<<<<57>>, <<57>>, IF PathIndex(p) <= k THEN <<49, 48>> ELSE <<57>>>>,
                       Digits(PathIndex(p)))] :
                k \in 0..n} : n \in 0..MaxSeriesFiles}

\* Records that lack identifiers: with all of PatientID, StudyInstanceUID
\* and SeriesInstanceUID, without one of them, or without any.
PartialDatasets(sop) ==
    LET full == [PatientID |-> <<57>>, StudyInstanceUID |-> <<57>>,
                 SeriesInstanceUID |-> <<57>>, SOPInstanceUID |-> sop]
    IN  {full,
         [StudyInstanceUID |-> <<57>>, SeriesInstanceUID |-> <<57>>, SOPInstanceUID |-> sop],
         [PatientID |-> <<57>>, SeriesInstanceUID |-> <<57>>, SOPInstanceUID |-> sop],
         [PatientID |-> <<57>>, StudyInstanceUID |-> <<57>>, SOPInstanceUID |-> sop],
         [SOPInstanceUID |-> sop]}

UnknownContents(i) ==
    {[readable |-> TRUE, ds |-> d] : d \in PartialDatasets(Digits(1)) \cup PartialDatasets(Digits(i))}
        \cup {NoSOP, Unreadable}

\* Input trees of up to MaxUnknownFiles such files.
UnknownTrees ==
    UNION {{[p \in {PathOf(i) : i \in 1..n} |-> g[PathIndex(p)]] :
                g \in {f \in [1..n -> UNION {UnknownContents(i) : i \in 1..n}] :
                          \A i \in 1..n : f[i] \in UnknownContents(i)}} : n \in 0..MaxUnknownFiles}

hasattr(ds, name) == name \in DOMAIN ds

\* getattr whose default is the empty string.
getattr_empty(ds, name, default) == IF name \in DOMAIN ds THEN ds[name] ELSE <<>>

getattr(ds, name, default) == IF name \in DOMAIN ds THEN ds[name] ELSE default

None == [none |-> TRUE]

\* is_dicom_file(filepath): the dataset, or None.
is_dicom_file(file) ==
    IF file.readable /\ hasattr(file.ds, "SOPInstanceUID") THEN file.ds ELSE None

\* ------------------------------------------------- datasets of the transcoder
\* A string of n characters, all different: "ABC...".
Chars(n) == [i \in 1..n |-> 64 + i]

\* elem.value: a str, a MultiValue of strs, or the items of a sequence (each
\* item a dataset, the sequence of its elements).
StrValue(str) == [kind |-> "str", str |-> str, multi |-> <<>>, items |-> <<>>]
MultiValue(strs) == [kind |-> "multi", str |-> <<>>, multi |-> strs, items |-> <<>>]
SequenceOf(items) == [kind |-> "items", str |-> <<>>, multi |-> <<>>, items |-> items]
isinstance_str(value) == value.kind = "str"

DataElement(tag, VR, value) == [tag |-> tag, VR |-> VR, value |-> value]

\* The elements without items: an SH of 16 characters, one of 20, a
\* two-valued SH whose first value has 20, and an LO of 20.
LeafElements ==
    {DataElement(1, "SH", StrValue(Chars(SHLimit))),
     DataElement(2, "SH", StrValue(Chars(SHLimit + 4))),
     DataElement(3, "SH", MultiValue(<<Chars(SHLimit + 4), Chars(1)>>)),
     DataElement(4, "LO", StrValue(Chars(SHLimit + 4)))}

RECURSIVE ElementsOfDepth(_)
\* The elements nested at most d deep: a sequence element holds one item of
\* one element, or two items: the SH of 20 characters and another leaf.
ElementsOfDepth(d) ==
    IF d = 0 THEN LeafElements
    ELSE LET E == ElementsOfDepth(d - 1)
         IN  E \cup {DataElement(5, "SQ", SequenceOf(<<<<e>>>>)) : e \in E}
               \cup {DataElement(6, "SQ", SequenceOf(<<<<e>>, <<f>>>>)) :
                        e \in {x \in LeafElements : x.tag = 2},
                        f \in {x \in LeafElements : x.tag # 2}}

\* The element lists of the datasets of up to max elements.
ElementListsUpTo(max) ==
    UNION {[1..n -> ElementsOfDepth(MaxDepth)] : n \in 0..max}

ExplicitVRLittleEndian == "1.2.840.10008.1.2.1"
ImplicitVRLittleEndian == "1.2.840.10008.1.2"
JPEGBaseline == "1.2.840.10008.1.2.4.50"

\* ds.file_meta: with a TransferSyntaxUID, or (a dataset stored without the
\* file meta group, which dcmread(force=True) reads) without one.
FileMetas ==
    {[TransferSyntaxUID |-> t] : t \in {ExplicitVRLittleEndian, ImplicitVRLittleEndian, JPEGBaseline}}
        \cup {[FileMetaInformationVersion |-> "1"]}

\* A dataset as pydicom.dcmread(src_filepath, force=True) returns it.
Dataset(file_meta, elems) ==
    [file_meta |-> file_meta,
     is_implicit_VR |-> ~hasattr(file_meta, "TransferSyntaxUID")
                          \/ file_meta = [TransferSyntaxUID |-> ImplicitVRLittleEndian],
     compressed |-> file_meta = [TransferSyntaxUID |-> JPEGBaseline],
     elems |-> elems]

NoDataset == Dataset([FileMetaInformationVersion |-> "0"], <<>>)

\* The source files of the transcoder: a dataset, or a file dcmread raises on.
SourceFiles ==
    {[readable |-> TRUE, ds |-> Dataset(m, e)] :
        m \in FileMetas, e \in ElementListsUpTo(MaxConvertElems)}
        \cup {[readable |-> FALSE, ds |-> NoDataset]}

\* new_val = elem.value[:16] (line 84).
normalize_sh_value(value) == StrValue(SubSeq(value.str, 1, SHLimit))

\* NeedsTrim that takes every string element for an SH.
NeedsTrim_anyVR(elem) == isinstance_str(elem.value) /\ Len(elem.value.str) > SHLimit

\* The test of line 83.
NeedsTrim(elem) ==
    elem.VR = "SH" /\ isinstance_str(elem.value) /\ Len(elem.value.str) > SHLimit

RECURSIVE normalize_sh(_)
\* normalize_sh(ds), lines 82-90, on the elements of ds.
normalize_sh(elems) ==
    [i \in DOMAIN elems |->
        LET elem == elems[i]
        IN  IF NeedsTrim(elem)
            THEN [elem EXCEPT !.value = normalize_sh_value(elem.value)]
            ELSE IF elem.VR = "SQ"
            THEN [elem EXCEPT !.value =
                    SequenceOf([k \in DOMAIN elem.value.items |-> normalize_sh(elem.value.items[k])])]
            ELSE elem]

\* ------------------------------------------------------------- dictionaries
EmptyDict == [k \in {} |-> 0]

DictSet(d, k, v) == [x \in (DOMAIN d) \cup {k} |-> IF x = k THEN v ELSE d[x]]

\* d.setdefault(k, default), as the dictionary it leaves
setdefault(d, k, default) == IF k \in DOMAIN d THEN d ELSE DictSet(d, k, default)

\* ------------------------------------------------------------------- state
VARIABLES
    input,            \* the input tree: source path -> file
    out_exists,       \* os.path.exists(out_dir)
    out_foreign,      \* entries the output directory held before the run
    walked,           \* the files os.walk has yielded so far
    data,             \* scan_input_directory's data
    seen_images,      \* scan_input_directory's seen_images
    total_files,
    valid_files,
    pc,               \* where main is
    pi, si, ri,       \* positions of the three for-loops over sorted keys
    patient_counter,
    study_counter,
    series_counter,
    file_list,        \* the sorted file list of the current series
    num_folders,
    folder_index,
    ii,               \* position in file_list[start:end]
    image_counter,
    dirs,             \* directories made below out_dir
    leaves,           \* files written below out_dir: destination -> source
    dirlog,           \* <<directory, identifiers it was made for>>, as logged
    assign,           \* <<dest_filepath, src_filepath>> of every iteration
    skipped,          \* files the scan skipped as duplicates, as logged
    dcmmkdir_calls,   \* times subprocess.run(dcmmkdir) returned or raised CalledProcessError
    dicomdir,         \* out_dir/DICOMDIR exists
    fatal,            \* which sys.exit ended the run, "none" if none did
    exit_status,      \* the process exit status, -1 while running
    errors,           \* source files whose conversion was logged as failed (line 212)
    first_seen,       \* history: <<series, instance>> -> the file walked first with it
    run,              \* 1, or 2 once the pipeline was started again
    prev,             \* history: what the first run left
    src,              \* the transcoder: the source file of one loop iteration
    conv_ds,          \* ds of lines 208-210 and of convert_to_explicit
    cpc,              \* where that iteration is
    leaf,             \* what save_as wrote at dest_filepath, NoDataset if nothing
    attempted,        \* ds.decompress() was called
    decompress_failed,\* and raised (logged at line 105)
    applied,          \* times normalize_sh has run on conv_ds
    before,           \* history: conv_ds before the last run of normalize_sh
    uid_files,        \* UID_fixer: file -> what dcmread gives for it
    mapping,          \* process_directory's mapping: original UID -> new UID
    lock,             \* the task that holds process_directory's lock, 0 if none
    tpc,              \* task -> where it is in process_file
    elem_index,       \* task -> the UI value process_dataset is at
    fixed,            \* task -> the values it has assigned so far, in order
    saved,            \* task -> save_as has written the file
    stores,           \* history: the <<original UID, new UID>> stored in mapping, in order
    dup_files,        \* Remove_duplicates_NO_SOP: the files below root_folder
    completed,        \* the futures as_completed has yielded
    dicom_identifiers,\* find_duplicates' dicom_identifiers: identifier -> file paths
    dpc,              \* where the script is
    answer,           \* the last input of confirm_and_delete, "none" before any
    deleted,          \* the files os.remove was called on
    drun,             \* 1, or 2 in a second execution on the same files
    dprev             \* history: the answer and the deleted files of the first execution

convVars == <<src, conv_ds, cpc, leaf, attempted, decompress_failed, applied, before>>
uidVars == <<uid_files, mapping, lock, tpc, elem_index, fixed, saved, stores>>
dupVars == <<dup_files, completed, dicom_identifiers, dpc, answer, deleted, drun, dprev>>
envVars == <<input, run, prev, convVars, uidVars, dupVars>>
scanVars == <<walked, data, seen_images, total_files, valid_files, skipped, first_seen>>
loopVars == <<pi, si, ri, patient_counter, study_counter, series_counter,
              file_list, num_folders, folder_index, ii, image_counter>>
outVars == <<dirs, leaves, dirlog, assign, errors>>
endVars == <<dcmmkdir_calls, dicomdir, fatal, exit_status>>
vars == <<envVars, out_exists, out_foreign, scanVars, pc, loopVars, outVars, endVars>>

\* out_dir itself, as the root of the paths below it
out_dir == <<>>

NoPrev == [dirs |-> {}, assign |-> {}, leaves |-> EmptyDict, data |-> EmptyDict]

\* The state main starts a run in.
Start ==
    /\ walked = {}
    /\ data = EmptyDict
    /\ seen_images = {}
    /\ total_files = 0
    /\ valid_files = 0
    /\ skipped = {}
    /\ first_seen = EmptyDict
    /\ pc = "check"
    /\ pi = 0 /\ si = 0 /\ ri = 0
    /\ patient_counter = 0 /\ study_counter = 0 /\ series_counter = 0
    /\ file_list = <<>>
    /\ num_folders = 0
    /\ folder_index = 0
    /\ ii = 0
    /\ image_counter = 0
    /\ dirs = {}
    /\ leaves = EmptyDict
    /\ dirlog = {}
    /\ assign = {}
    /\ errors = {}
    /\ dcmmkdir_calls = 0
    /\ dicomdir = FALSE
    /\ fatal = "none"
    /\ exit_status = -1

\* No file is with the transcoder.
ConvIdle ==
    /\ src = [readable |-> FALSE, ds |-> NoDataset]
    /\ conv_ds = NoDataset
    /\ cpc = "idle"
    /\ leaf = NoDataset
    /\ attempted = FALSE
    /\ decompress_failed = FALSE
    /\ applied = 0
    /\ before = NoDataset

\* UID_fixer is not running.
UidIdle ==
    /\ uid_files = <<>>
    /\ mapping = EmptyDict
    /\ lock = 0
    /\ tpc = <<>>
    /\ elem_index = <<>>
    /\ fixed = <<>>
    /\ saved = <<>>
    /\ stores = <<>>

\* Remove_duplicates_NO_SOP is not running.
NoDupRun == [answer |-> "none", deleted |-> {}]
DupIdle ==
    /\ dup_files = <<>>
    /\ completed = {}
    /\ dicom_identifiers = EmptyDict
    /\ dpc = "idle"
    /\ answer = "none"
    /\ deleted = {}
    /\ drun = 1
    /\ dprev = NoDupRun

InitOn(trees) ==
    /\ input \in trees
    /\ ConvIdle
    /\ UidIdle
    /\ DupIdle
    /\ out_exists \in BOOLEAN
    /\ out_foreign \in (IF out_exists THEN {{}, {"old"}} ELSE {{}})
    /\ run = 1
    /\ prev = NoPrev
    /\ Start

Init == InitOn(InputTrees)

InitSeries == InitOn(SeriesTrees)

InitRerun == InitOn(RerunTrees)

InitUnknown == InitOn(UnknownTrees)

\* Whether os.listdir(out_dir) is a non-empty list.
listdir_nonempty == out_foreign # {} \/ dirs # {} \/ dicomdir

\* SysExitStatus with a message taken for success.
SysExitStatus_zero(arg) == IF arg.kind = "int" THEN arg.value ELSE 0

\* The exit status of sys.exit(arg): None is 0, an integer is itself, any
\* other object (the tool passes messages) is printed and the status is 1.
SysExitStatus(arg) ==
    IF arg.kind = "none" THEN 0
    ELSE IF arg.kind = "int" THEN arg.value
    ELSE 1

Message(m) == [kind |-> "str", value |-> m]

\* What each fatal condition passes to sys.exit (lines 55, 264 and 240).
FatalArg(reason) ==
    IF reason = "nonempty" THEN Message("Error: Output directory must be empty.")
    ELSE IF reason = "novalid" THEN Message("Error: No valid DICOM files found.")
    ELSE Message("Error: Failed to create DICOMDIR using dcmmkdir.")

SysExit(reason) ==
    /\ fatal' = reason
    /\ exit_status' = SysExitStatus(FatalArg(reason))
    /\ pc' = "exit"

\* ---------------------------------------------------- check_output_directory
\* OutputRefused without the test of os.listdir.
OutputRefused_never == FALSE

\* Whether check_output_directory refuses the directory (lines 52-53).
OutputRefused == out_exists /\ listdir_nonempty

CheckOutputDirectory ==
    /\ pc = "check"
    /\ IF OutputRefused
       THEN /\ SysExit("nonempty")
            /\ UNCHANGED <<out_exists, dcmmkdir_calls, dicomdir>>
       ELSE /\ out_exists' = TRUE
            /\ pc' = "scan"
            /\ UNCHANGED endVars
    /\ UNCHANGED <<envVars, out_foreign, scanVars, loopVars, outVars>>

\* ------------------------------------------------------ scan_input_directory
\* IsDuplicate with the test left out.
IsDuplicate_never(key_image, seen) == FALSE

\* The test of line 141.
IsDuplicate(key_image, seen) == key_image \in seen

\* MarkSeen that forgets to record the pair.
MarkSeen_forgotten(seen, key_image) == seen

\* Line 145.
MarkSeen(seen, key_image) == seen \cup {key_image}

\* Lines 148-151: the three setdefault calls and the append.
IndexInsert(d, patient_id, study_uid, series_uid, full_path) ==
    LET d1 == setdefault(d, patient_id, EmptyDict)
        s1 == setdefault(d1[patient_id], study_uid, EmptyDict)
        l1 == setdefault(s1[study_uid], series_uid, <<>>)
    IN  DictSet(d1, patient_id,
            DictSet(s1, study_uid,
                DictSet(l1, series_uid, Append(l1[series_uid], full_path))))

\* One iteration of the loop of line 125, for the file os.walk yields next.
ScanFile(full_path) ==
    /\ pc = "scan"
    /\ full_path \in (DOMAIN input) \ walked
    /\ walked' = walked \cup {full_path}
    /\ total_files' = total_files + 1
    /\ LET ds == is_dicom_file(input[full_path])
       IN  IF ds = None
           THEN UNCHANGED <<data, seen_images, valid_files, skipped, first_seen>>
           ELSE LET patient_id == getattr(ds, "PatientID", UNKNOWN)
                    study_uid == getattr(ds, "StudyInstanceUID", UNKNOWN)
                    series_uid == getattr(ds, "SeriesInstanceUID", UNKNOWN)
                    sop_uid == getattr(ds, "SOPInstanceUID", None)
                    key_image == <<series_uid, sop_uid>>
                IN  IF ~hasattr(ds, "SOPInstanceUID")    \* sop_uid is None
                    THEN UNCHANGED <<data, seen_images, valid_files, skipped, first_seen>>
                    ELSE /\ first_seen' = setdefault(first_seen, key_image, full_path)
                         /\ IF IsDuplicate(key_image, seen_images)
                            THEN /\ skipped' = skipped \cup {full_path}
                                 /\ UNCHANGED <<data, seen_images, valid_files>>
                            ELSE /\ seen_images' = MarkSeen(seen_images, key_image)
                                 /\ valid_files' = valid_files + 1
                                 /\ data' = IndexInsert(data, patient_id, study_uid, series_uid, full_path)
                                 /\ UNCHANGED skipped
    /\ UNCHANGED <<envVars, out_exists, out_foreign, pc, loopVars, outVars, endVars>>

\* NoValidRecords without the test of the index.
NoValidRecords_never(d) == FALSE

\* Whether main stops after the scan (line 262: "if not data").
NoValidRecords(d) == DOMAIN d = {}

\* WalkExhausted for a return inside the loop.
WalkExhausted_early == walked # {}

\* The loops of lines 124-125 have no file left.
WalkExhausted == walked = DOMAIN input

\* The walk is exhausted: scan_input_directory returns, main tests the index
\* and, if it is not empty, enters copy_sorted_files (line 165).
ScanReturn ==
    /\ pc = "scan"
    /\ WalkExhausted
    /\ IF NoValidRecords(data)
       THEN /\ SysExit("novalid")
            /\ UNCHANGED <<patient_counter, pi, dcmmkdir_calls, dicomdir>>
       ELSE /\ patient_counter' = 1
            /\ pi' = 1
            /\ pc' = "patient"
            /\ UNCHANGED endVars
    /\ UNCHANGED <<envVars, out_exists, out_foreign, scanVars, si, ri, study_counter,
                   series_counter, file_list, num_folders, folder_index, ii,
                   image_counter, outVars>>

\* --------------------------------------------------------- copy_sorted_files
\* The loop variables of the for statements, from their positions.
patients == SortedKeys(data)
patient_id == patients[pi]
studies == SortedKeys(data[patient_id])
study_uid == studies[si]
seriesList == SortedKeys(data[patient_id][study_uid])
series_uid == seriesList[ri]

patient_dir == PathJoin(out_dir, format_code(PA, patient_counter))
study_dir == PathJoin(patient_dir, format_code(ST, study_counter))
series_dir == PathJoin(study_dir, format_code(SE, series_counter))

\* SortFileList that keeps the order of insertion.
SortFileList_unsorted(files) == files

\* Line 192.
SortFileList(files) == sorted(files)

\* NumFolders as floor + 1.
NumFolders_floor(num_images) == (num_images \div MAX_IMAGES_PER_FOLDER) + 1

\* Line 189.
NumFolders(num_images) == Ceil(num_images, MAX_IMAGES_PER_FOLDER)

\* Chunk whose end lies one entry too near.
Chunk_short(files, index) ==
    LET start == index * MAX_IMAGES_PER_FOLDER
        end == start + MAX_IMAGES_PER_FOLDER - 1
    IN  Slice(files, start, end)

\* Chunk whose end lies one entry too far.
Chunk_overlap(files, index) ==
    LET start == index * MAX_IMAGES_PER_FOLDER
        end == start + MAX_IMAGES_PER_FOLDER + 1
    IN  Slice(files, start, end)

\* Lines 202-204: the files of one series folder.
Chunk(files, index) ==
    LET start == index * MAX_IMAGES_PER_FOLDER
        end == start + MAX_IMAGES_PER_FOLDER
    IN  Slice(files, start, end)

\* NextImageCounter that does not count.
NextImageCounter_stuck(n) == n

\* The counters at the end of a loop body (lines 213-216).
NextImageCounter(n) == n + 1
NextSeriesCounter(n) == n + 1
NextStudyCounter(n) == n + 1
NextPatientCounter(n) == n + 1

\* os.makedirs(dir, exist_ok=True) and the log line that follows it.
MakeDirs(dir, ids) ==
    /\ dirs' = dirs \cup {dir}
    /\ dirlog' = dirlog \cup {<<dir, ids>>}

\* for patient_id in sorted(data.keys()): the head of the loop (168-174), or
\* its end, where copy_sorted_files returns to main.
PatientLoop ==
    /\ pc = "patient"
    /\ IF pi <= Len(patients)
       THEN /\ MakeDirs(patient_dir, <<patient_id>>)
            /\ study_counter' = 1
            /\ si' = 1
            /\ pc' = "study"
       ELSE /\ pc' = "dicomdir"
            /\ UNCHANGED <<dirs, dirlog, study_counter, si>>
    /\ UNCHANGED <<envVars, out_exists, out_foreign, scanVars, pi, ri, patient_counter,
                   series_counter, file_list, num_folders, folder_index, ii,
                   image_counter, leaves, assign, errors, endVars>>

\* for study_uid in sorted(data[patient_id].keys()): the head (176-182), or
\* the end of the patient's body (216).
StudyLoop ==
    /\ pc = "study"
    /\ IF si <= Len(studies)
       THEN /\ MakeDirs(study_dir, <<patient_id, study_uid>>)
            /\ series_counter' = 1
            /\ ri' = 1
            /\ pc' = "series"
            /\ UNCHANGED <<pi, patient_counter>>
       ELSE /\ patient_counter' = NextPatientCounter(patient_counter)
            /\ pi' = pi + 1
            /\ pc' = "patient"
            /\ UNCHANGED <<dirs, dirlog, series_counter, ri>>
    /\ UNCHANGED <<envVars, out_exists, out_foreign, scanVars, si, study_counter,
                   file_list, num_folders, folder_index, ii, image_counter,
                   leaves, assign, errors, endVars>>

\* for series_uid in sorted(...keys()): the head (185-192), or the end of the
\* study's body (215).
SeriesLoop ==
    /\ pc = "series"
    /\ IF ri <= Len(seriesList)
       THEN /\ file_list' = SortFileList(data[patient_id][study_uid][series_uid])
            /\ num_folders' = NumFolders(Len(data[patient_id][study_uid][series_uid]))
            /\ folder_index' = 0
            /\ pc' = "folder"
            /\ UNCHANGED <<si, study_counter>>
       ELSE /\ study_counter' = NextStudyCounter(study_counter)
            /\ si' = si + 1
            /\ pc' = "study"
            /\ UNCHANGED <<file_list, num_folders, folder_index>>
    /\ UNCHANGED <<envVars, out_exists, out_foreign, scanVars, pi, ri, patient_counter,
                   series_counter, ii, image_counter, outVars, endVars>>

\* for folder_index in range(num_folders): the head (194-203), or the end of
\* the series' body.
FolderLoop ==
    /\ pc = "folder"
    /\ IF folder_index < num_folders
       THEN /\ MakeDirs(series_dir, <<patient_id, study_uid, series_uid>>)
            /\ image_counter' = 1
            /\ ii' = 1
            /\ pc' = "image"
            /\ UNCHANGED ri
       ELSE /\ ri' = ri + 1
            /\ pc' = "series"
            /\ UNCHANGED <<dirs, dirlog, image_counter, ii>>
    /\ UNCHANGED <<envVars, out_exists, out_foreign, scanVars, pi, si, patient_counter,
                   study_counter, series_counter, file_list, num_folders,
                   folder_index, leaves, assign, errors, endVars>>

\* AfterConversion whose except clause lets the exception through.
AfterConversion_raises(converted) == IF converted THEN "image" ELSE "exit"

\* Where the run is after the try statement of lines 206-212: "except
\* Exception" catches what the read, the conversion or the write raised, and
\* the loop goes on.
AfterConversion(converted) == "image"

\* for src_filepath in file_list[start:end]: one file (205-213), whose read,
\* conversion or write raises (converted FALSE) or not, or the end of the
\* folder's body (214).
ImageLoop(converted) ==
    /\ pc = "image"
    /\ LET chunk == Chunk(file_list, folder_index)
       IN  IF ii <= Len(chunk)
           THEN LET src_filepath == chunk[ii]
                    dest_filepath == PathJoin(series_dir, format_code(DI, image_counter))
                IN  /\ leaves' = IF converted
                                 THEN DictSet(leaves, dest_filepath, src_filepath)
                                 ELSE leaves
                    /\ errors' = IF converted THEN errors ELSE errors \cup {src_filepath}
                    /\ assign' = assign \cup {<<dest_filepath, src_filepath>>}
                    /\ image_counter' = NextImageCounter(image_counter)
                    /\ ii' = ii + 1
                    /\ pc' = AfterConversion(converted)
                    /\ UNCHANGED <<series_counter, folder_index>>
           ELSE /\ converted
                /\ series_counter' = NextSeriesCounter(series_counter)
                /\ folder_index' = folder_index + 1
                /\ pc' = "folder"
                /\ UNCHANGED <<leaves, assign, errors, image_counter, ii>>
    /\ UNCHANGED <<envVars, out_exists, out_foreign, scanVars, pi, si, ri,
                   patient_counter, study_counter, file_list, num_folders,
                   dirs, dirlog, endVars>>

\* ------------------------------------------------------------ create_dicomdir
\* subprocess.run(command, check=True): dcmmkdir exits 0 ("ok"), exits
\* non-zero and CalledProcessError is caught ("failed"), or cannot be started
\* and the exception leaves main uncaught ("missing": Python exits with 1).
\* DcmmkdirFailed that logs the error and lets main return.
DcmmkdirFailed_ignored ==
    /\ fatal' = "none"
    /\ exit_status' = 0
    /\ pc' = "done"

\* The handler of CalledProcessError (lines 238-240).
DcmmkdirFailed == SysExit("dcmmkdir")

CreateDicomdir(outcome) ==
    /\ pc = "dicomdir"
    /\ IF outcome = "ok"
       THEN /\ dcmmkdir_calls' = dcmmkdir_calls + 1
            /\ dicomdir' = TRUE
            /\ fatal' = "none"
            /\ exit_status' = SysExitStatus([kind |-> "none"])
            /\ pc' = "done"
       ELSE IF outcome = "failed"
       THEN /\ dcmmkdir_calls' = dcmmkdir_calls + 1
            /\ DcmmkdirFailed
            /\ UNCHANGED dicomdir
       ELSE /\ fatal' = "traceback"
            /\ exit_status' = 1
            /\ pc' = "exit"
            /\ UNCHANGED <<dcmmkdir_calls, dicomdir>>
    /\ UNCHANGED <<envVars, out_exists, out_foreign, scanVars, loopVars, outVars>>

\* ------------------------------------------------------------ a second run
\* The output directory is cleared and main is started again on the same
\* input tree. What the first run left is kept in prev.
Rerun ==
    /\ run = 1
    /\ pc \in {"done", "exit"}
    /\ fatal # "nonempty"
    /\ run' = 2
    /\ prev' = [dirs |-> dirs, assign |-> assign, leaves |-> leaves, data |-> data]
    /\ walked' = {}
    /\ data' = EmptyDict
    /\ seen_images' = {}
    /\ total_files' = 0
    /\ valid_files' = 0
    /\ skipped' = {}
    /\ first_seen' = EmptyDict
    /\ pc' = "check"
    /\ pi' = 0 /\ si' = 0 /\ ri' = 0
    /\ patient_counter' = 0 /\ study_counter' = 0 /\ series_counter' = 0
    /\ file_list' = <<>>
    /\ num_folders' = 0
    /\ folder_index' = 0
    /\ ii' = 0
    /\ image_counter' = 0
    /\ dirs' = {}
    /\ leaves' = EmptyDict
    /\ dirlog' = {}
    /\ assign' = {}
    /\ errors' = {}
    /\ dcmmkdir_calls' = 0
    /\ dicomdir' = FALSE
    /\ fatal' = "none"
    /\ exit_status' = -1
    /\ UNCHANGED <<input, out_exists, out_foreign, convVars, uidVars, dupVars>>

Next ==
    \/ CheckOutputDirectory
    \/ \E full_path \in DOMAIN input : ScanFile(full_path)
    \/ ScanReturn
    \/ PatientLoop
    \/ StudyLoop
    \/ SeriesLoop
    \/ FolderLoop
    \/ \E converted \in BOOLEAN : ImageLoop(converted)
    \/ \E outcome \in {"ok", "failed", "missing"} : CreateDicomdir(outcome)

\* ------------------------------------------- one file with the transcoder
\* main has not started: no input tree, no output directory.
NoRun ==
    /\ input = EmptyDict
    /\ out_exists = FALSE
    /\ out_foreign = {}
    /\ run = 1
    /\ prev = NoPrev
    /\ Start

pipelineVars == <<input, run, prev, out_exists, out_foreign, scanVars, pc, loopVars, outVars, endVars>>
nonConvVars == <<pipelineVars, uidVars, dupVars>>
nonUidVars == <<pipelineVars, convVars, dupVars>>
nonDupVars == <<pipelineVars, convVars, uidVars>>

\* The body of the loop of line 204 for one source file.
InitConvert ==
    /\ NoRun
    /\ UidIdle
    /\ DupIdle
    /\ src \in SourceFiles
    /\ conv_ds = NoDataset
    /\ cpc = "read"
    /\ leaf = NoDataset
    /\ attempted = FALSE
    /\ decompress_failed = FALSE
    /\ applied = 0
    /\ before = NoDataset

\* ds = pydicom.dcmread(src_filepath, force=True) (line 208); what it raises
\* is caught at line 211.
DcmRead ==
    /\ cpc = "read"
    /\ IF src.readable
       THEN conv_ds' = src.ds /\ cpc' = "convert"
       ELSE cpc' = "read_failed" /\ UNCHANGED conv_ds
    /\ UNCHANGED <<nonConvVars, src, leaf, attempted, decompress_failed, applied, before>>

\* The test of line 100.
AttemptsDecompress(ds) == ds.file_meta.TransferSyntaxUID # ExplicitVRLittleEndian

\* Lines 106-107.
SetExplicit(ds) ==
    [ds EXCEPT !.file_meta = [TransferSyntaxUID |-> ExplicitVRLittleEndian],
               !.is_implicit_VR = FALSE]

\* ds = convert_to_explicit(ds) (line 209, lines 100-109). Reading
\* file_meta.TransferSyntaxUID of a dataset that has none raises
\* AttributeError, which leaves the function and is caught at line 211;
\* ds.decompress() raises (decompress_ok FALSE) or not.
ConvertToExplicit(decompress_ok) ==
    /\ cpc = "convert"
    /\ IF ~hasattr(conv_ds.file_meta, "TransferSyntaxUID")
       THEN /\ cpc' = "convert_failed"
            /\ UNCHANGED <<conv_ds, attempted, decompress_failed, applied, before>>
       ELSE LET attempt == AttemptsDecompress(conv_ds)
                ds1 == IF attempt /\ decompress_ok
                       THEN [conv_ds EXCEPT !.compressed = FALSE]
                       ELSE conv_ds
                ds2 == SetExplicit(ds1)
            IN  /\ attempted' = attempt
                /\ decompress_failed' = (attempt /\ ~decompress_ok)
                /\ before' = ds2
                /\ conv_ds' = [ds2 EXCEPT !.elems = normalize_sh(ds2.elems)]
                /\ applied' = applied + 1
                /\ cpc' = "save"
    /\ UNCHANGED <<nonConvVars, src, leaf>>

\* ds.save_as(dest_filepath, write_like_original=False) (line 210), which
\* writes the file or raises (save_ok FALSE).
SaveAs(save_ok) ==
    /\ cpc = "save"
    /\ IF save_ok
       THEN leaf' = conv_ds /\ cpc' = "written"
       ELSE cpc' = "save_failed" /\ UNCHANGED leaf
    /\ UNCHANGED <<nonConvVars, src, conv_ds, attempted, decompress_failed, applied, before>>

NextConvert ==
    \/ DcmRead
    \/ \E decompress_ok \in BOOLEAN : ConvertToExplicit(decompress_ok)
    \/ \E save_ok \in BOOLEAN : SaveAs(save_ok)

\* The transcoding of one source file.
SpecConvert == InitConvert /\ [][NextConvert]_vars

\* normalize_sh on a dataset, once and again.
InitNormalize ==
    /\ NoRun
    /\ UidIdle
    /\ DupIdle
    /\ src \in {[readable |-> TRUE, ds |-> Dataset([TransferSyntaxUID |-> ExplicitVRLittleEndian], e)] :
                    e \in ElementListsUpTo(MaxElems)}
    /\ conv_ds = src.ds
    /\ cpc = "normalize"
    /\ leaf = NoDataset
    /\ attempted = FALSE
    /\ decompress_failed = FALSE
    /\ applied = 0
    /\ before = NoDataset

\* ds = normalize_sh(ds) (line 108).
NormalizeSH ==
    /\ cpc = "normalize"
    /\ applied < MaxApplications
    /\ before' = conv_ds
    /\ conv_ds' = [conv_ds EXCEPT !.elems = normalize_sh(conv_ds.elems)]
    /\ applied' = applied + 1
    /\ UNCHANGED <<nonConvVars, src, cpc, leaf, attempted, decompress_failed>>

SpecNormalize == InitNormalize /\ [][NormalizeSH]_vars

\* ---------------------------------------------------------------- UID_fixer
\* uid.split('.')
RECURSIVE Split(_)
Split(str) ==
    IF \A i \in DOMAIN str : str[i] # 46 THEN <<str>>
    ELSE LET dot == CHOOSE i \in DOMAIN str : str[i] = 46 /\ \A j \in 1..(i - 1) : str[j] # 46
         IN  <<SubSeq(str, 1, dot - 1)>> \o Split(SubSeq(str, dot + 1, Len(str)))

\* comp.isdigit()
isdigit(comp) == Len(comp) > 0 /\ \A i \in DOMAIN comp : comp[i] \in 48..57

\* is_valid_uid (lines 53-63) of a str.
is_valid_uid(uid) ==
    /\ Len(uid) > 0
    /\ Len(uid) <= 64
    /\ \A k \in DOMAIN Split(uid) :
        LET comp == Split(uid)[k]
        IN  isdigit(comp) /\ ~(Len(comp) > 1 /\ comp[1] = 48)

ORG_ROOT == <<49, 46, 50, 46, 56, 52, 48, 46, 49, 50, 51, 52, 53>>
DEVICE_TYPE == <<51>>
DEVICE_SERIAL == <<49, 53, 50>>
STUDY_NUMBER == <<50, 51, 53>>
SERIES_NUMBER == <<50>>
IMAGE_NUMBER == <<49, 50>>
DEFAULT_SOP_CLASS_UID ==
    <<49, 46, 50, 46, 56, 52, 48, 46, 49, 48, 48, 48, 56, 46, 53, 46, 49, 46, 52, 46, 49, 46, 49, 46, 55>>

\* The UIDs of the model: "1.2", which is_valid_uid accepts, and "1.02" and
\* "A", which it does not.
CompliantUID == <<49, 46, 50>>
LeadingZeroUID == <<49, 46, 48, 50>>
LetterUID == <<65>>

\* str(int(hashlib.sha1(original_uid.encode()).hexdigest(), 16)), lines 79-80:
\* the SHA-1 values of the three UIDs of the model, in decimal.
Sha1Decimal(original_uid) ==
    IF original_uid = LeadingZeroUID
    THEN <<49, 49, 56, 50, 53, 53, 52, 51, 49, 49, 57, 52, 55, 53, 53, 53, 52, 48, 51, 48, 48, 50, 50, 49, 56, 57, 48, 53, 48, 53, 49, 56, 57, 52, 51, 57, 49, 49, 49, 56, 48, 56, 48, 50, 53, 53, 52, 48, 55>>
    ELSE IF original_uid = LetterUID
    THEN <<54, 50, 54, 56, 53, 56, 51, 52, 52, 51, 48, 52, 56, 51, 54, 54, 56, 54, 54, 51, 57, 48, 49, 56, 57, 55, 52, 50, 48, 56, 48, 51, 49, 56, 49, 50, 54, 57, 55, 56, 50, 50, 55, 57, 54, 56, 50, 55>>
    ELSE <<55, 51, 54, 57, 50, 50, 48, 49, 52, 53, 52, 55, 55, 55, 52, 49, 55, 57, 54, 50, 54, 54, 50, 49, 54, 50, 56, 50, 54, 52, 52, 53, 50, 48, 54, 57, 53, 51, 48, 53, 56, 57, 53, 48, 53, 51, 54, 52>>

\* Lines 82-87: the new UID for an original one.
NewOrgUID(original_uid) ==
    LET dot == <<46>>
        prefix == ORG_ROOT \o dot \o DEVICE_TYPE \o dot \o DEVICE_SERIAL \o dot \o STUDY_NUMBER
                    \o dot \o SERIES_NUMBER \o dot \o IMAGE_NUMBER
        available == 64 - (Len(prefix) + 1)
        unique_suffix == Sha1Decimal(original_uid)
    IN  prefix \o dot \o (IF Len(unique_suffix) > available
                           THEN SubSeq(unique_suffix, 1, available)
                           ELSE unique_suffix)

\* A UI value as process_dataset meets it: the str value of the SOP Class
\* UID element (0008,0016) or of another element.
UIValue(tag, uid) == [tag |-> tag, uid |-> uid, multi |-> FALSE]

\* One of the values of a multi-valued UI element: elem.value is then a
\* pydicom MultiValue.
MultiUIValue(uid) == [tag |-> "Other", uid |-> uid, multi |-> TRUE]

\* isinstance(elem.value, list), line 113: a MultiValue is a
\* MutableSequence, no list, in every pydicom that has dcmread.
isinstance_list(value) == FALSE

\* isinstance(elem.value, str), line 123.
isinstance_uid_str(value) == ~value.multi

\* The UI values of a dataset in the order process_dataset visits them (the
\* items of sequences in their place). Three kinds of dataset, of any length
\* up to MaxUIDs.
UIValueAt(kind, i) ==
    IF kind = 1
    THEN (IF i % 2 = 1 THEN UIValue("Other", LeadingZeroUID) ELSE UIValue("SOPClassUID", LeadingZeroUID))
    ELSE IF kind = 2
    THEN (IF i % 2 = 1 THEN UIValue("Other", LetterUID) ELSE MultiUIValue(LeadingZeroUID))
    ELSE (IF i % 2 = 1 THEN UIValue("Other", CompliantUID) ELSE UIValue("SOPClassUID", CompliantUID))

UIDDatasets == {[i \in 1..n |-> UIValueAt(kind, i)] : kind \in 1..3, n \in 0..MaxUIDs}

\* The files of the folder: a dataset, or a file dcmread raises on.
UIDFileContents ==
    {[readable |-> TRUE, values |-> d] : d \in UIDDatasets} \cup {[readable |-> FALSE, values |-> <<>>]}

\* process_directory up to the submission of the tasks (lines 155-166).
InitUid ==
    /\ NoRun
    /\ ConvIdle
    /\ DupIdle
    /\ uid_files \in UNION {[1..n -> UIDFileContents] : n \in 0..MaxUIDFiles}
    /\ mapping = EmptyDict
    /\ lock = 0
    /\ tpc = [t \in DOMAIN uid_files |-> "read"]
    /\ elem_index = [t \in DOMAIN uid_files |-> 1]
    /\ fixed = [t \in DOMAIN uid_files |-> <<>>]
    /\ saved = [t \in DOMAIN uid_files |-> FALSE]
    /\ stores = <<>>

Tasks == DOMAIN uid_files
CurrentValue(t) == uid_files[t].values[elem_index[t]]

\* Whether the value at hand goes to generate_org_uid (lines 113-117 and
\* 123-126).
NeedsOrgUID(t) ==
    /\ elem_index[t] <= Len(uid_files[t].values)
    /\ CurrentValue(t).tag # "SOPClassUID"
    /\ isinstance_list(CurrentValue(t)) \/ isinstance_uid_str(CurrentValue(t))
    /\ ~is_valid_uid(CurrentValue(t).uid)

\* The value is assigned and process_dataset goes to the next one.
AssignValue(t, uid) ==
    /\ fixed' = [fixed EXCEPT ![t] = Append(fixed[t], uid)]
    /\ elem_index' = [elem_index EXCEPT ![t] = elem_index[t] + 1]

\* ds = pydicom.dcmread(filepath, force=True), lines 136-140.
UidRead(t) ==
    /\ tpc[t] = "read"
    /\ tpc' = [tpc EXCEPT ![t] = IF uid_files[t].readable THEN "dataset" ELSE "returned"]
    /\ UNCHANGED <<nonUidVars, uid_files, mapping, lock, elem_index, fixed, saved, stores>>

\* process_dataset at a value that needs no new UID: a SOP Class UID, which
\* is kept or replaced by the default (lines 106-110), a value that
\* is_valid_uid accepts (lines 116-121, 124), or a value neither branch
\* of lines 113 and 123 takes; or at the end of the dataset.
ProcessElement(t) ==
    /\ tpc[t] = "dataset"
    /\ ~NeedsOrgUID(t)
    /\ IF elem_index[t] > Len(uid_files[t].values)
       THEN /\ tpc' = [tpc EXCEPT ![t] = "save"]
            /\ UNCHANGED <<fixed, elem_index>>
       ELSE /\ AssignValue(t, IF /\ CurrentValue(t).tag = "SOPClassUID"
                                   /\ ~is_valid_uid(CurrentValue(t).uid)
                                THEN DEFAULT_SOP_CLASS_UID
                                ELSE CurrentValue(t).uid)
            /\ UNCHANGED tpc
    /\ UNCHANGED <<nonUidVars, uid_files, mapping, lock, saved, stores>>

\* LockFree of a lock that does not exclude.
LockFree_always == TRUE

\* Whether "with lock" (line 75) can be entered.
LockFree == lock = 0

\* generate_org_uid from "with lock" to the test of line 76: the UID is in
\* the mapping and is returned (the lock released), or is not.
GenerateLookup(t) ==
    /\ tpc[t] = "dataset"
    /\ NeedsOrgUID(t)
    /\ LockFree
    /\ IF CurrentValue(t).uid \in DOMAIN mapping
       THEN /\ AssignValue(t, mapping[CurrentValue(t).uid])
            /\ UNCHANGED <<tpc, lock>>
       ELSE /\ lock' = t
            /\ tpc' = [tpc EXCEPT ![t] = "store"]
            /\ UNCHANGED <<fixed, elem_index>>
    /\ UNCHANGED <<nonUidVars, uid_files, mapping, saved, stores>>

\* generate_org_uid, lines 79-89: the new UID is stored, the lock released.
GenerateStore(t) ==
    /\ tpc[t] = "store"
    /\ LET original_uid == CurrentValue(t).uid
           new_uid == NewOrgUID(original_uid)
       IN  /\ mapping' = DictSet(mapping, original_uid, new_uid)
           /\ stores' = Append(stores, <<original_uid, new_uid>>)
           /\ AssignValue(t, new_uid)
    /\ lock' = 0
    /\ tpc' = [tpc EXCEPT ![t] = "dataset"]
    /\ UNCHANGED <<nonUidVars, uid_files, saved>>

\* ds.save_as(filepath, write_like_original=False), lines 143-149.
UidSave(t, save_ok) ==
    /\ tpc[t] = "save"
    /\ saved' = [saved EXCEPT ![t] = save_ok]
    /\ tpc' = [tpc EXCEPT ![t] = "returned"]
    /\ UNCHANGED <<nonUidVars, uid_files, mapping, lock, elem_index, fixed, stores>>

NextUid ==
    \E t \in Tasks :
        \/ UidRead(t)
        \/ ProcessElement(t)
        \/ GenerateLookup(t)
        \/ GenerateStore(t)
        \/ \E save_ok \in BOOLEAN : UidSave(t, save_ok)

\* process_directory: the tasks of the thread pool, in any interleaving.
SpecUid == InitUid /\ [][NextUid]_vars

\* --------------------------------------------- Remove_duplicates_NO_SOP.py
\* The files below root_folder: one whose name ends in .dcm (in any case)
\* or not, and for which process_file returns an identifier (the tuple of
\* the five attributes of lines 12-16, "a" or "b" here) or None, when
\* dcmread raises or one of the attributes is missing (NoIdentifier).
DupFile(dcm, identifier) == [dcm |-> dcm, identifier |-> identifier]
NoIdentifier == "unreadable"
DupFileContents ==
    {DupFile(TRUE, "a"), DupFile(TRUE, "b"), DupFile(TRUE, NoIdentifier), DupFile(FALSE, "a")}

\* dicom_files of lines 35-40.
dicom_files == {f \in DOMAIN dup_files : dup_files[f].dcm}

\* find_duplicates up to the submission of the files (lines 31-44).
InitDup ==
    /\ NoRun
    /\ ConvIdle
    /\ UidIdle
    /\ dup_files \in UNION {[1..n -> DupFileContents] : n \in 0..MaxDupFiles}
    /\ completed = {}
    /\ dicom_identifiers = EmptyDict
    /\ dpc = "collect"
    /\ answer = "none"
    /\ deleted = {}
    /\ drun = 1
    /\ dprev = NoDupRun

\* process_file(file_path), lines 20-28: (identifier, file_path), or None,
\* the empty tuple here.
process_file(file_path) ==
    IF dup_files[file_path].identifier = NoIdentifier
    THEN <<>>
    ELSE <<dup_files[file_path].identifier, file_path>>

\* dicom_identifiers[identifier].append(file_path) on a defaultdict(list).
AppendTo(d, identifier, file_path) ==
    DictSet(d, identifier, Append(setdefault(d, identifier, <<>>)[identifier], file_path))

\* One iteration of the loop of line 46: as_completed yields the future of
\* any file whose worker has finished, in the order the workers finish.
AsCompleted(file_path) ==
    /\ dpc = "collect"
    /\ file_path \in dicom_files \ completed
    /\ completed' = completed \cup {file_path}
    /\ LET result == process_file(file_path)
       IN  dicom_identifiers' = IF result # <<>>
                                THEN AppendTo(dicom_identifiers, result[1], result[2])
                                ELSE dicom_identifiers
    /\ UNCHANGED <<nonDupVars, dup_files, dpc, answer, deleted, drun, dprev>>

\* The filter of line 53.
IsDuplicated(file_paths) == Len(file_paths) > 1

\* duplicates of line 53.
Duplicates(d) == {k \in DOMAIN d : IsDuplicated(d[k])}

\* find_duplicates returns and the script goes to confirm_and_delete if
\* there are duplicates (lines 82-87).
FindReturn ==
    /\ dpc = "collect"
    /\ completed = dicom_files
    /\ dpc' = IF Duplicates(dicom_identifiers) # {} THEN "confirm" ELSE "done"
    /\ UNCHANGED <<nonDupVars, dup_files, completed, dicom_identifiers, answer, deleted, drun, dprev>>

\* file_paths[1:] that keeps nothing.
Rest_all(file_paths) == file_paths

\* file_paths[1:], line 71.
Rest(file_paths) == SubSeq(file_paths, 2, Len(file_paths))

\* The files lines 69-73 remove.
Removed(d) == UNION {{Rest(d[k])[i] : i \in DOMAIN Rest(d[k])} : k \in Duplicates(d)}

\* confirm_and_delete on one input, stripped and lowered: anything but yes
\* and no asks again; every os.remove succeeds.
ConfirmAndDelete(delete) ==
    /\ dpc = "confirm"
    /\ answer' = delete
    /\ dpc' = IF delete \in {"yes", "no"} THEN "done" ELSE "confirm"
    /\ deleted' = IF delete = "yes" THEN Removed(dicom_identifiers) ELSE deleted
    /\ UNCHANGED <<nonDupVars, dup_files, completed, dicom_identifiers, drun, dprev>>

\* A second execution of the script on the same files as the first.
SecondExecution ==
    /\ dpc = "done"
    /\ drun = 1
    /\ drun' = 2
    /\ dprev' = [answer |-> answer, deleted |-> deleted]
    /\ completed' = {}
    /\ dicom_identifiers' = EmptyDict
    /\ dpc' = "collect"
    /\ answer' = "none"
    /\ deleted' = {}
    /\ UNCHANGED <<nonDupVars, dup_files>>

NextDup ==
    \/ \E file_path \in DOMAIN dup_files : AsCompleted(file_path)
    \/ FindReturn
    \/ \E delete \in {"yes", "no", "other"} : ConfirmAndDelete(delete)
    \/ SecondExecution

\* The script on a folder of up to MaxDupFiles files, twice.
SpecDup == InitDup /\ [][NextDup]_vars

\* One run of main on any input tree of up to MaxFiles files.
Spec == Init /\ [][Next]_vars

\* One run of main on the trees of one study (SeriesTrees).
SpecSeries == InitSeries /\ [][Next]_vars

\* One run of main on the trees of records that lack identifiers.
SpecUnknown == InitUnknown /\ [][Next]_vars

\* Two runs of main on the same input tree of up to MaxRerunFiles files.
SpecRerun == InitRerun /\ [][Next \/ Rerun]_vars

\* ================================================================== claims
Finished == pc \in {"done", "exit"}

\* copy_sorted_files returns to main (the tree and the index are as they
\* are then until the run ends: create_dicomdir changes neither).
CopyReturned == pc = "dicomdir"

\* copy_sorted_files has returned.
CopyFinished == pc \in {"dicomdir", "done"} \/ (pc = "exit" /\ fatal \in {"dcmmkdir", "traceback"})

\* The (patient, study, series) keys of the index, and the files under them.
Groups ==
    UNION {UNION {{<<p, st, se>> : se \in DOMAIN data[p][st]} : st \in DOMAIN data[p]} : p \in DOMAIN data}
GroupFiles(g) == data[g[1]][g[2]][g[3]]
IndexedFiles == UNION {Range(GroupFiles(g)) : g \in Groups}
\* The entries of the index: <<key, position in the list of the key>>.
IndexEntries == UNION {{<<g, i>> : i \in DOMAIN GroupFiles(g)} : g \in Groups}
EntryFile(e) == GroupFiles(e[1])[e[2]]

\* The files the scan accepts as records, and the pair it computes for one.
ValidFiles == {f \in DOMAIN input : input[f].readable /\ "SOPInstanceUID" \in DOMAIN input[f].ds}
PairOf(f) ==
    <<IF "SeriesInstanceUID" \in DOMAIN input[f].ds THEN input[f].ds.SeriesInstanceUID ELSE UNKNOWN,
      input[f].ds.SOPInstanceUID>>
PairsSeen == {PairOf(f) : f \in walked \cap ValidFiles}
SeenCount(k) == Cardinality({f \in walked \cap ValidFiles : PairOf(f) = k})

RECURSIVE DecValue(_)
DecValue(s) == IF s = <<>> THEN 0 ELSE 10 * DecValue(SubSeq(s, 1, Len(s) - 1)) + (s[Len(s)] - 48)
\* The number of a code such as PA00012.
CodeNumber(code) == DecValue(SubSeq(code, 3, Len(code)))

\* The least k with k * c >= n.
CeilDiv(n, c) == CHOOSE k \in 0..n : k * c >= n /\ \A j \in 0..(k - 1) : j * c < n

DirsAt(level) == {d \in dirs : Len(d) = level}
LoggedAt(level) == {x \in dirlog : Len(x[1]) = level}
FoldersOf(g) == {x[1] : x \in {y \in LoggedAt(3) : y[2] = g}}
AssignedIn(d) == {a \in assign : SubSeq(a[1], 1, 3) = d}
LeafCodesIn(d) == {dest[4] : dest \in {x \in DOMAIN leaves : SubSeq(x, 1, 3) = d}}
DICodes(n) == {format_code(DI, k) : k \in 1..n}

\* C1: at every moment of the scan, no two entries of the grouping index
\* (two files, or one file entered twice) carry the same (SeriesInstanceUID,
\* SOPInstanceUID) pair, whatever their patient and study identifiers.
C1_NoDuplicatePairInIndex ==
    Cardinality({PairOf(EntryFile(e)) : e \in IndexEntries}) = Cardinality(IndexEntries)

\* A file was skipped whose pair is in the index under another patient.
C1_Witness ==
    \E f \in IndexedFiles, g \in skipped :
        /\ PairOf(f) = PairOf(g)
        /\ input[f].ds.PatientID # input[g].ds.PatientID

CodesInOrder(X, level, prefix, strict) ==
    /\ {CodeNumber(x[1][level]) : x \in X} = 1..Cardinality({x[1] : x \in X})
    /\ \A x \in X : x[1][level] = format_code(prefix, CodeNumber(x[1][level]))
    /\ \A x \in X, y \in X :
        /\ x[1] = y[1] => x[2] = y[2]
        /\ CodeNumber(x[1][level]) < CodeNumber(y[1][level]) =>
             IF strict THEN StrLess(x[2][level], y[2][level])
             ELSE ~StrLess(y[2][level], x[2][level])

\* C3: when copy_sorted_files returns, the PA codes are 1, 2, ... in the string
\* order of the patient identifiers; under each patient the ST codes are 1,
\* 2, ... in the string order of its study identifiers; under each study the
\* SE codes are 1, 2, ... over all folders of all its series, in the string
\* order of the series identifiers; and every patient, study and series of
\* the index has its folders.
C3_CodesSequentialInOrder ==
    CopyReturned =>
        /\ CodesInOrder(LoggedAt(1), 1, PA, TRUE)
        /\ \A pd \in DirsAt(1) :
            CodesInOrder({x \in LoggedAt(2) : SubSeq(x[1], 1, 1) = pd}, 2, ST, TRUE)
        /\ \A sd \in DirsAt(2) :
            CodesInOrder({x \in LoggedAt(3) : SubSeq(x[1], 1, 2) = sd}, 3, SE, FALSE)
        /\ {x[2] : x \in LoggedAt(1)} = {<<p>> : p \in DOMAIN data}
        /\ {x[2] : x \in LoggedAt(2)} = {<<g[1], g[2]>> : g \in Groups}
        /\ {x[2] : x \in LoggedAt(3)} = Groups

\* Two patients were copied, the first of them with two studies: ST starts
\* again at 1 under the second patient.
C3_Witness ==
    /\ pc = "done"
    /\ <<format_code(PA, 1), format_code(ST, 2)>> \in dirs
    /\ <<format_code(PA, 2), format_code(ST, 1)>> \in dirs

\* C4 as stated: in the tree a run leaves, the leaf files of every SE folder
\* carry the codes DI00001..DI0000K with none missing.
C4_LeafCodesContiguous ==
    Finished => \A d \in DirsAt(3) : LeafCodesIn(d) = DICodes(Cardinality(LeafCodesIn(d)))

\* C4 as amended: the codes given out in an SE folder are DI00001..DI0000K
\* for the K files of the folder, and the leaf files carry exactly the codes
\* of the files whose conversion did not fail: a failure leaves a gap.
C4_AssignedCodesContiguous ==
    \A d \in DirsAt(3) :
        LET A == AssignedIn(d)
        IN  /\ {a[1][4] : a \in A} = DICodes(Cardinality(A))
            /\ LeafCodesIn(d) = {a[1][4] : a \in {b \in A : b[2] \notin errors}}

\* A folder was left with DI00002 and without DI00001.
C4_Witness ==
    /\ Finished
    /\ \E d \in DirsAt(3) :
        /\ format_code(DI, 2) \in LeafCodesIn(d)
        /\ format_code(DI, 1) \notin LeafCodesIn(d)

SecondRunFinished == run = 2 /\ Finished
InputHasDuplicates == \E f \in ValidFiles, g \in ValidFiles : f # g /\ PairOf(f) = PairOf(g)
SameAsFirstRun == dirs = prev.dirs /\ assign = prev.assign

\* C5 as stated: a second run on the same input tree makes the same
\* directories and gives every code to the same source file, whatever the
\* order of the walks.
C5_RerunIdentical == SecondRunFinished => SameAsFirstRun

\* C5 as amended: it does so when no two records of the input tree share a
\* (series, instance) pair.
C5_RerunIdenticalNoDuplicates == (SecondRunFinished /\ ~InputHasDuplicates) => SameAsFirstRun

\* The second run walked the files in another order and copied them.
C5_Witness ==
    /\ run = 2
    /\ pc = "done"
    /\ ~InputHasDuplicates
    /\ data # prev.data
    /\ Cardinality(assign) = 2

\* C6: of the files walked so far with one (series, instance) pair, the
\* index holds the one that was walked first, once, and every other one was
\* skipped.
C6_FirstEncounteredKept ==
    /\ IndexedFiles = Range(first_seen)
    /\ Cardinality(IndexEntries) = Cardinality(IndexedFiles)
    /\ skipped = (walked \cap ValidFiles) \ Range(first_seen)
    /\ \A k \in DOMAIN first_seen :
        first_seen[k] \in walked /\ PairOf(first_seen[k]) = k

\* Three files with one pair were walked: one is kept, two were skipped.
C6_Witness ==
    /\ pc = "patient"
    /\ Cardinality(skipped) = 2
    /\ Cardinality(PairsSeen) = 1

LeafPairs == {PairOf(leaves[d]) : d \in DOMAIN leaves}
LeafPairsDistinct ==
    \A d \in DOMAIN leaves, e \in DOMAIN leaves : d # e => PairOf(leaves[d]) # PairOf(leaves[e])

\* C7 as stated: when the run is over, the leaf files carry as many pairs as
\* were seen exactly once during the scan, each in one leaf file.
C7_LeafPairsSeenOnce ==
    Finished =>
        /\ Cardinality(LeafPairs) = Cardinality({k \in PairsSeen : SeenCount(k) = 1})
        /\ LeafPairsDistinct

\* C7 as amended: when the run is over, no pair is in two leaf files, and
\* the leaf files carry as many pairs as the scan saw (a pair seen several
\* times counted once) less the files whose conversion failed.
C7_LeafPairsSeenLessFailed ==
    Finished =>
        /\ Cardinality(LeafPairs) = Cardinality(PairsSeen) - Cardinality(errors)
        /\ LeafPairsDistinct

\* A run with a duplicate, a failed conversion and a leaf file.
C7_Witness ==
    /\ pc = "done"
    /\ skipped # {}
    /\ errors # {}
    /\ DOMAIN leaves # {}

\* C8: a run that finds entries in the output directory stops there, before
\* any file is walked, any folder or leaf file made or dcmmkdir called; a
\* missing directory is made and is empty when the scan starts; an empty one
\* lets the run go on.
C8_NonEmptyOutputAborts ==
    /\ fatal = "nonempty" =>
        /\ pc = "exit"
        /\ out_exists /\ out_foreign # {}
        /\ walked = {} /\ total_files = 0 /\ DOMAIN data = {}
        /\ dirs = {} /\ DOMAIN leaves = {} /\ assign = {}
        /\ dcmmkdir_calls = 0 /\ ~dicomdir
    /\ (out_foreign # {} /\ pc # "check") => fatal = "nonempty"
    /\ out_foreign = {} => fatal # "nonempty"
    /\ (pc # "check" /\ fatal # "nonempty") => out_exists
    /\ (pc = "scan" /\ walked = {}) => (out_exists /\ ~listdir_nonempty)

\* The run stopped at a non-empty output directory.
C8_Witness == pc = "exit" /\ fatal = "nonempty" /\ out_foreign # {}

\* C9: a run whose index is empty after the walk ends with the "no valid
\* records" error, having made no folder and no leaf file and never called
\* dcmmkdir; the copy and dcmmkdir run only with a non-empty index.
C9_EmptyIndexIsFatal ==
    /\ fatal = "novalid" =>
        /\ pc = "exit"
        /\ walked = DOMAIN input /\ DOMAIN data = {}
        /\ dirs = {} /\ DOMAIN leaves = {} /\ assign = {}
        /\ dcmmkdir_calls = 0 /\ ~dicomdir
    /\ pc \in {"patient", "study", "series", "folder", "image", "dicomdir", "done"} => DOMAIN data # {}
    /\ (dcmmkdir_calls > 0 \/ dirs # {}) => DOMAIN data # {}
    /\ (DOMAIN data = {} /\ pc \notin {"check", "scan"}) => fatal \in {"novalid", "nonempty"}

\* Files were walked, none was a record, and the run stopped.
C9_Witness == fatal = "novalid" /\ walked # {} /\ pc = "exit"

FatalConditions == {"nonempty", "novalid", "dcmmkdir"}

AssignedFiles == {a[2] : a \in assign}
TreeAsCopied ==
    /\ dirs = {x[1] : x \in dirlog}
    /\ DOMAIN leaves = {a[1] : a \in {b \in assign : b[2] \notin errors}}

\* C11: in every run dcmmkdir is called at most once, and only when
\* copy_sorted_files has returned with every file of the index given its
\* destination (written, or logged as failed); a run that ended at a
\* non-empty output directory or an empty index never called it; a run ends
\* as done only after dcmmkdir succeeded; when dcmmkdir fails the run ends
\* there, fatal, with a non-zero status, after that one call, and the folders
\* and leaf files written so far are all still in place.
C11_IndexBuilderOnceAtEnd ==
    /\ dcmmkdir_calls <= 1
    /\ dcmmkdir_calls = 1 =>
        /\ CopyFinished /\ Finished
        /\ AssignedFiles = IndexedFiles
        /\ fatal \in {"none", "dcmmkdir"}
    /\ fatal \in {"nonempty", "novalid"} => dcmmkdir_calls = 0 /\ ~dicomdir
    /\ pc = "done" => dcmmkdir_calls = 1 /\ dicomdir /\ fatal = "none"
    /\ (dcmmkdir_calls = 1 /\ ~dicomdir) => fatal = "dcmmkdir"
    /\ fatal = "dcmmkdir" =>
        /\ pc = "exit" /\ exit_status # 0
        /\ dcmmkdir_calls = 1 /\ ~dicomdir
        /\ TreeAsCopied /\ dirs # {}

\* The second run, too, called dcmmkdir once, which failed after a leaf file
\* had been written.
C11_Witness ==
    /\ run = 2
    /\ fatal = "dcmmkdir"
    /\ dcmmkdir_calls = 1
    /\ DOMAIN leaves # {}

\* The destination the sorted index alone gives a file: the ranks of its
\* patient, study and series identifiers in string order, the folders of the
\* series before its own, and its rank among the paths of its series.
Rank(k, K) == 1 + Cardinality({j \in K : StrLess(j, k)})
FoldersBefore(g) ==
    Cardinality(UNION {{<<se, k>> : k \in 1..CeilDiv(Len(data[g[1]][g[2]][se]), MAX_IMAGES_PER_FOLDER)} :
                          se \in {x \in DOMAIN data[g[1]][g[2]] : StrLess(x, g[3])}})
PlannedGroup(g) ==
    LET files == Range(GroupFiles(g))
        pa == format_code(PA, Rank(g[1], DOMAIN data))
        st == format_code(ST, Rank(g[2], DOMAIN data[g[1]]))
        base == FoldersBefore(g)
    IN  {<<<<pa, st,
              format_code(SE, base + ((Rank(f, files) - 1) \div MAX_IMAGES_PER_FOLDER) + 1),
              format_code(DI, ((Rank(f, files) - 1) % MAX_IMAGES_PER_FOLDER) + 1)>>, f>> : f \in files}
PlannedAssign == UNION {PlannedGroup(g) : g \in Groups}

\* C12: a file whose read, conversion or write failed does not end the run:
\* the run ends only where dcmmkdir was reached, and when copy_sorted_files
\* returns every file of the index was given the destination that the sorted
\* index alone determines (so the one it would have had with no failure),
\* with a leaf file there for each file that did not fail.
C12_FailureDoesNotAbort ==
    /\ (errors # {} /\ pc = "exit") => (CopyFinished /\ fatal \in {"dcmmkdir", "traceback"})
    /\ CopyReturned =>
        /\ assign = PlannedAssign
        /\ \A a \in assign :
            IF a[2] \in errors THEN a[1] \notin DOMAIN leaves
            ELSE a[1] \in DOMAIN leaves /\ leaves[a[1]] = a[2]

\* The first file of a folder failed, the second was written as DI00002 and
\* dcmmkdir ran.
C12_Witness ==
    /\ pc = "done"
    /\ dcmmkdir_calls = 1
    /\ \E a \in assign, b \in assign :
        /\ a[2] \in errors /\ a[1][4] = format_code(DI, 1)
        /\ b[2] \notin errors /\ b[1] = PathJoin(SubSeq(a[1], 1, 3), format_code(DI, 2))
        /\ b[1] \in DOMAIN leaves

RECURSIVE SHWithinLimit(_)
\* No SH value of the elements, single or one of several, at any depth, is
\* longer than the limit.
SHWithinLimit(elems) ==
    \A i \in DOMAIN elems :
        /\ elems[i].VR = "SH" =>
            /\ Len(elems[i].value.str) <= SHLimit
            /\ \A k \in DOMAIN elems[i].value.multi : Len(elems[i].value.multi[k]) <= SHLimit
        /\ \A k \in DOMAIN elems[i].value.items : SHWithinLimit(elems[i].value.items[k])

\* C13: once convert_to_explicit has run on a dataset, no SH value in it, at
\* any depth and single- or multi-valued, is longer than 16 characters, and
\* so none in the leaf file that save_as writes.
C13_NoLongSH ==
    /\ cpc \in {"save", "written", "save_failed"} => SHWithinLimit(conv_ds.elems)
    /\ cpc = "written" => SHWithinLimit(leaf.elems)

RECURSIVE TrimmedOnly(_, _)
\* b is a with every single-valued SH string of more than 16 characters cut
\* to its first 16, at every depth, and is otherwise a: the same elements
\* and items in the same order, with the same tags, VRs and values.
TrimmedOnly(a, b) ==
    /\ Len(b) = Len(a)
    /\ \A i \in DOMAIN a :
        /\ b[i].tag = a[i].tag /\ b[i].VR = a[i].VR /\ b[i].value.kind = a[i].value.kind
        /\ IF a[i].VR = "SH" /\ a[i].value.kind = "str" /\ Len(a[i].value.str) > SHLimit
           THEN b[i].value.str = [j \in 1..SHLimit |-> a[i].value.str[j]]
           ELSE IF a[i].value.kind = "items"
           THEN /\ Len(b[i].value.items) = Len(a[i].value.items)
                /\ \A k \in DOMAIN a[i].value.items :
                     TrimmedOnly(a[i].value.items[k], b[i].value.items[k])
           ELSE b[i] = a[i]

SourceNotExplicit ==
    ~hasattr(src.ds.file_meta, "TransferSyntaxUID")
        \/ src.ds.file_meta.TransferSyntaxUID # ExplicitVRLittleEndian
ConvertOver == cpc \in {"save", "written", "convert_failed", "save_failed"}

\* C15: for a source file that dcmread can read, ds.decompress() is called
\* if and only if the transfer syntax is not Explicit VR Little Endian; a
\* failed decompression does not end the file's conversion; and whether
\* decompression was not tried, worked or failed, the conversion reaches the
\* write and (the write itself not failing) leaves a leaf file whose
\* transfer syntax is Explicit VR Little Endian.
C15_DecompressIffNotExplicit ==
    (src.readable /\ ConvertOver) =>
        /\ attempted <=> SourceNotExplicit
        /\ cpc # "convert_failed"
        /\ cpc = "written" =>
            /\ leaf.file_meta = [TransferSyntaxUID |-> ExplicitVRLittleEndian]
            /\ ~leaf.is_implicit_VR

\* The source files whose conversion was tried: written, or logged as failed.
Transcoded == {leaves[d] : d \in DOMAIN leaves} \cup errors
CopyStarted == dirs # {} \/ assign # {} \/ DOMAIN leaves # {} \/ errors # {}

\* C16 as stated: no folder is made and no code given before the scan has
\* walked every file, and no file is converted before every file of the
\* index has been given its destination.
C16_AllocationBeforeTranscoding ==
    /\ CopyStarted => (walked = DOMAIN input /\ pc \notin {"check", "scan"})
    /\ Transcoded # {} => AssignedFiles = IndexedFiles

\* C16 as amended: no folder is made and no code given before the scan has
\* walked every file; a file is given its destination right before its own
\* conversion, so at every moment the files with a destination are the
\* files converted so far, each written at the destination it was given.
C16_ScanBeforeCopy ==
    /\ CopyStarted => (walked = DOMAIN input /\ pc \notin {"check", "scan"})
    /\ AssignedFiles = Transcoded
    /\ \A d \in DOMAIN leaves : <<d, leaves[d]>> \in assign

\* One file was written while another file of the index has no destination
\* yet.
C16_Witness ==
    /\ pc = "image"
    /\ DOMAIN leaves # {}
    /\ IndexedFiles \ AssignedFiles # {}

\* The identifier the index files a record under when the tag is absent.
UnknownKey == <<85, 78, 75, 78, 79, 87, 78>>
KeyOf(f, tag) == IF tag \in DOMAIN input[f].ds THEN input[f].ds[tag] ELSE UnknownKey
Unusable == {f \in DOMAIN input : ~input[f].readable \/ "SOPInstanceUID" \notin DOMAIN input[f].ds}

\* C17: a file that cannot be read or has no SOPInstanceUID is counted and
\* passed over: it is not in the index, it adds no pair to seen_images and it
\* does not stop the scan; a record that has one is indexed under its
\* identifiers with "UNKNOWN" in the place of each that is absent, and the
\* pair recorded for it has "UNKNOWN" for an absent series identifier.
C17_SkipsAndDefaults ==
    /\ IndexedFiles \cap Unusable = {}
    /\ skipped \cap Unusable = {}
    /\ IndexedFiles \cup skipped = walked \ Unusable
    /\ total_files = Cardinality(walked)
    /\ (pc = "scan") => fatal = "none"
    /\ \A g \in Groups : \A f \in Range(GroupFiles(g)) :
        g = <<KeyOf(f, "PatientID"), KeyOf(f, "StudyInstanceUID"), KeyOf(f, "SeriesInstanceUID")>>
    /\ seen_images =
        {<<KeyOf(f, "SeriesInstanceUID"), input[f].ds.SOPInstanceUID>> : f \in IndexedFiles}

\* A record without any of the three identifiers is in the index and a file
\* without SOPInstanceUID was passed over.
C17_Witness ==
    /\ pc = "patient"
    /\ <<UnknownKey, UnknownKey, UnknownKey>> \in Groups
    /\ walked \cap Unusable # {}

\* C20: when copy_sorted_files returns, every file of the index was
\* given exactly one destination and no destination was given to two files;
\* every destination lies in an SE folder that was made; every SE folder
\* was given between 1 and MAX_IMAGES_PER_FOLDER files; and every PA, ST and
\* SE folder that was made has a destination beneath it.
C20_AllocationOneToOne ==
    CopyReturned =>
        /\ \A f \in IndexedFiles : Cardinality({a \in assign : a[2] = f}) = 1
        /\ \A a \in assign, b \in assign : a[1] = b[1] => a = b
        /\ \A a \in assign : Len(a[1]) = 4 /\ SubSeq(a[1], 1, 3) \in dirs
        /\ \A d \in DirsAt(3) :
            Cardinality(AssignedIn(d)) \in 1..MAX_IMAGES_PER_FOLDER
        /\ \A d \in dirs : \E a \in assign : SubSeq(a[1], 1, Len(d)) = d

\* Two series were copied, one of them split over two folders, the second of
\* which was given one file.
C20_Witness ==
    /\ pc = "done"
    /\ Cardinality({g[3] : g \in Groups}) = 2
    /\ \E g \in Groups : Cardinality(FoldersOf(g)) = 2
    /\ \E d \in DirsAt(3) : Cardinality(AssignedIn(d)) = 1
    /\ \E d \in DirsAt(3) : Cardinality(AssignedIn(d)) = MAX_IMAGES_PER_FOLDER

\* The UI values a task has been through: <<task, position>>.
Visited == UNION {{<<t, i>> : i \in DOMAIN fixed[t]} : t \in Tasks}
OriginalAt(v) == uid_files[v[1]].values[v[2]]
FixedAt(v) == fixed[v[1]][v[2]]

\* The mapping gets one entry for an original UID, only for UIDs that
\* is_valid_uid rejects, and holds what was stored.
MappingWrittenOnce ==
    /\ \A i \in DOMAIN stores, j \in DOMAIN stores : stores[i][1] = stores[j][1] => i = j
    /\ DOMAIN mapping = {stores[i][1] : i \in DOMAIN stores}
    /\ \A i \in DOMAIN stores :
        ~is_valid_uid(stores[i][1]) /\ mapping[stores[i][1]] = stores[i][2]

CompliantKept == \A v \in Visited : is_valid_uid(OriginalAt(v).uid) => FixedAt(v) = OriginalAt(v).uid

Readable == {f \in DOMAIN dup_files : dup_files[f].identifier # NoIdentifier}
Collected == Readable \cap dicom_files
WithIdentifier(files, k) == {f \in files : dup_files[f].identifier = k}
Shared(files) == {k \in {"a", "b"} : Cardinality(WithIdentifier(files, k)) >= 2}
DupDone == dpc = "done"

\* After yes, of the files in 'files' that share an identifier one remains,
\* the first recorded for it; after no, no file is deleted; a file whose
\* identifier is unique in 'files' or that could not be read is never
\* deleted.
KeepsFirstOf(files) ==
    /\ answer = "yes" =>
        \A k \in Shared(files) :
            /\ Cardinality(WithIdentifier(files, k) \ deleted) = 1
            /\ k \in DOMAIN dicom_identifiers
            /\ WithIdentifier(files, k) \ deleted = {dicom_identifiers[k][1]}
    /\ \A f \in DOMAIN dup_files :
        (f \notin Readable \/ dup_files[f].identifier \notin Shared(files)) => f \notin deleted
    /\ answer = "no" => deleted = {}

\* C19 as stated: after yes one file of every attribute tuple that two or
\* more readable files share remains, the first recorded; unique and
\* unreadable files are never deleted; after no, nothing is deleted; and
\* two executions on the same files with the same answer delete the same
\* set of files, whatever the completion orders.
C19_DeletedSetSameForEveryOrder ==
    DupDone =>
        /\ KeepsFirstOf(Readable)
        /\ (drun = 2 /\ answer = dprev.answer) => deleted = dprev.deleted

\* C19 as amended: the same for the readable files whose name ends in .dcm,
\* the only ones the script collects; two executions with the same answer
\* delete the same number of files, of the same tuples, but which file of
\* a tuple remains is the one whose worker finished first.
C19_KeepsFirstCompleted ==
    DupDone =>
        /\ KeepsFirstOf(Collected)
        /\ deleted \subseteq Collected
        /\ (drun = 2 /\ answer = dprev.answer) =>
            \A k \in {"a", "b"} :
                Cardinality(WithIdentifier(deleted, k)) = Cardinality(WithIdentifier(dprev.deleted, k))

\* Both executions answered yes and deleted different files of a shared
\* tuple, next to a file that is unique or unreadable and is kept.
C19_Witness ==
    /\ DupDone /\ drun = 2
    /\ answer = "yes" /\ dprev.answer = "yes"
    /\ deleted # {} /\ deleted # dprev.deleted
    /\ \E f \in dicom_files \ deleted :
        f \notin Readable \/ dup_files[f].identifier \notin Shared(Collected)

====
